---------------------------- MODULE Spec2Model ----------------------------
(***************************************************************************)
(* A model of hgrep's syntect printer (src/src/syntect.rs): theme loading, *)
(* the per-file rendering pipeline (Drawer / Canvas / LinesInclusive) and  *)
(* the locked write of the per-file buffer to the shared sink.             *)
(*                                                                         *)
(* Output bytes are modelled as a sequence of tokens: one token per        *)
(* character written, one per escape sequence, one per newline.  A text is *)
(* a sequence of one-character strings; "W" stands for an East-Asian wide  *)
(* character (2 columns), "Z" for a zero-width character.                  *)
(***************************************************************************)
EXTENDS Integers, Sequences, FiniteSets, TLC

VARIABLES bat_defaults, defaults, printer, th, sink, lock, call

vars == <<bat_defaults, defaults, printer, th, sink, lock, call>>

-----------------------------------------------------------------------------
(* Bounds of the model *)

\* the longest byte buffer handed to LinesInclusive on its own
MaxBufLen == 4
\* the number of lines of the files whose last line numbers have two digits
ManyLines == 10
\* number of threads calling print on the same printer
NumThreads == 2
\* the longest file contents, in lines
MaxLines == 3
\* the largest line number a chunk may name
MaxLnum == 4
\* the most chunks of a file
MaxChunks == 2
\* the longest line (characters before the newline) of the line-content inputs
MaxLineLen == 3
\* the most rows one source line may be wrapped into before the model stops following it
MaxRows == 3
\* the most writes of the sink one write_all may need
MaxWrites == 2

Threads == 1..NumThreads
\* the value of the lock when no thread holds it
NoThread == CHOOSE n \in 0..NumThreads : n \notin Threads

-----------------------------------------------------------------------------
(* Generic helpers *)

Min(a, b) == IF a < b THEN a ELSE b
Max(a, b) == IF a > b THEN a ELSE b

Range(s) == {s[i] : i \in 1..Len(s)}

Tail0(s, n) == SubSeq(s, n + 1, Len(s))

RECURSIVE Concat(_)
Concat(ss) == IF ss = <<>> THEN <<>> ELSE Head(ss) \o Concat(Tail(ss))

RECURSIVE SeqsUpTo(_, _)
SeqsUpTo(S, n) ==
    IF n = 0 THEN {<<>>}
    ELSE LET shorter == SeqsUpTo(S, n - 1)
         IN  shorter \cup {Append(s, x) : s \in {q \in shorter : Len(q) = n - 1}, x \in S}

None == <<>>
Some(x) == <<x>>

-----------------------------------------------------------------------------
(* Output tokens *)

Tok(k, c, n) == [k |-> k, c |-> c, n |-> n]
Esc(codes) == Tok("esc", "", codes)
Ch(c) == Tok("ch", c, <<>>)
Space == Ch(" ")
Newline == Tok("nl", "", <<>>)
Num(n) == Tok("num", "", <<n>>)

RECURSIVE Repeat(_, _)
Repeat(tok, n) == IF n <= 0 THEN <<>> ELSE <<tok>> \o Repeat(tok, n - 1)

RECURSIVE Chars(_)
Chars(text) == IF text = <<>> THEN <<>> ELSE <<Ch(Head(text))>> \o Chars(Tail(text))

\* c.width_cjk().unwrap_or(0): control characters have no width
CharWidth(c) ==
    CASE c = "W" -> 2
      [] c \in {"Z", "\t", "\n", "\r"} -> 0
      [] OTHER -> 1

RECURSIVE TextWidth(_)
TextWidth(text) == IF text = <<>> THEN 0 ELSE CharWidth(Head(text)) + TextWidth(Tail(text))

\* num_digits: (n as f64).log10() as u16 + 1; the cast saturates -inf to 0
num_digits(n) == IF n < 10 THEN 1 ELSE IF n < 100 THEN 2 ELSE IF n < 1000 THEN 3 ELSE 4

\* columns a token occupies on screen
TokWidth(tok) ==
    CASE tok.k = "ch" -> CharWidth(tok.c)
      [] tok.k = "num" -> num_digits(tok.n[1])
      [] OTHER -> 0

RECURSIVE Width(_)
Width(toks) == IF toks = <<>> THEN 0 ELSE TokWidth(Head(toks)) + Width(Tail(toks))

-----------------------------------------------------------------------------
(* Colors and the Canvas *)

Color(r, g, b, a) == [r |-> r, g |-> g, b |-> b, a |-> a]

\* round(x * 5 / 255) on 0..255, the 6-level colour cube of the 256-colour palette
Cube(x) == (x * 5 + 127) \div 255

\* rgb_to_ansi256 of the rgb2ansi256 crate: grey ramp or 6x6x6 cube
rgb_to_ansi256(r, g, b) ==
    IF r = g /\ g = b
    THEN IF r < 8 THEN 16
         ELSE IF r > 248 THEN 231
         ELSE ((r - 8) * 24) \div 247 + 232
    ELSE 16 + 36 * Cube(r) + 6 * Cube(g) + Cube(b)

set_bg(c, true_color) ==
    CASE c.a = 0 /\ c.r <= 7 -> <<Esc(<<c.r + 40>>)>>
      [] c.a = 0 /\ c.r > 7 -> <<Esc(<<48, 5, c.r>>)>>
      [] c.a = 1 -> <<>>
      [] c.a > 1 /\ true_color -> <<Esc(<<48, 2, c.r, c.g, c.b>>)>>
      [] OTHER -> <<Esc(<<48, 5, rgb_to_ansi256(c.r, c.g, c.b)>>)>>

\* the foreground written in 24 bits whatever the terminal supports
set_fg_always_true_color(c, true_color) ==
    CASE c.a = 0 /\ c.r <= 7 -> <<Esc(<<c.r + 30>>)>>
      [] c.a = 0 /\ c.r > 7 -> <<Esc(<<38, 5, c.r>>)>>
      [] c.a = 1 -> <<>>
      [] OTHER -> <<Esc(<<38, 2, c.r, c.g, c.b>>)>>

set_fg(c, true_color) ==
    CASE c.a = 0 /\ c.r <= 7 -> <<Esc(<<c.r + 30>>)>>
      [] c.a = 0 /\ c.r > 7 -> <<Esc(<<38, 5, c.r>>)>>
      [] c.a = 1 -> <<>>
      [] c.a > 1 /\ true_color -> <<Esc(<<38, 2, c.r, c.g, c.b>>)>>
      [] OTHER -> <<Esc(<<38, 5, rgb_to_ansi256(c.r, c.g, c.b)>>)>>

\* A canvas is [tab_width, theme, true_color, background, match_color]

set_default_bg(cv) ==
    IF cv.background /\ cv.theme.background # None
    THEN set_bg(cv.theme.background[1], cv.true_color)
    ELSE <<>>

set_bold == <<Esc(<<1>>)>>
set_underline == <<Esc(<<4>>)>>

set_font_style(style) ==
    (IF "BOLD" \in style THEN set_bold ELSE <<>>)
    \o (IF "UNDERLINE" \in style THEN set_underline ELSE <<>>)

unset_font_style(style) ==
    (IF "BOLD" \in style THEN <<Esc(<<22>>)>> ELSE <<>>)
    \o (IF "UNDERLINE" \in style THEN <<Esc(<<24>>)>> ELSE <<>>)

reset_color == <<Esc(<<0>>)>>

draw_spaces(num) == Repeat(Space, num)

\* draw_text from character i on, `width` columns and `out` written so far.
\* Result: [out, brk, rest, width]; brk is Break(rest), otherwise Continue(width).
RECURSIVE draw_text_from(_, _, _, _, _, _)
draw_text_from(cv, text, limit, i, width, out) ==
    IF i > Len(text)
    THEN [out |-> out, brk |-> FALSE, rest |-> <<>>, width |-> width]
    ELSE LET c == text[i] IN
         IF c = "\t" /\ cv.tab_width > 0
         THEN IF width + cv.tab_width > limit
              THEN [out |-> out \o draw_spaces(limit - width), brk |-> TRUE,
                    rest |-> Tail0(text, i), width |-> width]
              ELSE draw_text_from(cv, text, limit, i + 1, width + cv.tab_width,
                                  out \o draw_spaces(cv.tab_width))
         ELSE IF width + CharWidth(c) > limit
              THEN [out |-> out, brk |-> TRUE, rest |-> Tail0(text, i - 1), width |-> width]
              ELSE draw_text_from(cv, text, limit, i + 1, width + CharWidth(c),
                                  out \o <<Ch(c)>>)

draw_text(cv, text, limit) == draw_text_from(cv, text, limit, 1, 0, <<>>)

fill_spaces(written_width, max_width) ==
    (IF written_width < max_width THEN draw_spaces(max_width - written_width) ELSE <<>>)
    \o reset_color

\* The escapes draw_texts writes before the text of one part
part_prefix(cv, style, matched) ==
    (IF ~matched /\ cv.background THEN set_bg(style.background, cv.true_color) ELSE <<>>)
    \o set_fg(style.foreground, cv.true_color)
    \o set_font_style(style.font_style)

\* The tail of draw_texts once every part is drawn
draw_texts_done(cv, matched, max_width, width, out) ==
    [out |-> out
            \o (IF width = 0 /\ ~matched THEN set_default_bg(cv) ELSE <<>>)
            \o (IF matched \/ cv.background THEN fill_spaces(width, max_width) ELSE reset_color),
     wrap |-> FALSE, rest |-> <<>>, idx |-> 0]

\* the break of a line that leaves the style open
wrap_result_no_reset(out, rest, idx) ==
    [out |-> out, wrap |-> TRUE, rest |-> rest, idx |-> idx]

\* draw_texts when draw_text broke the line inside part idx
wrap_result(out, rest, idx) ==
    [out |-> out \o reset_color, wrap |-> TRUE, rest |-> rest, idx |-> idx]

\* The loop of draw_texts from part idx on (0-based, as enumerate() counts).
\* Result: [out, wrap, rest, idx]; wrap is Wrap(rest, idx), otherwise Done.
RECURSIVE draw_texts_from(_, _, _, _, _, _, _)
draw_texts_from(cv, parts, matched, max_width, idx, width, out) ==
    IF idx >= Len(parts)
    THEN draw_texts_done(cv, matched, max_width, width, out)
    ELSE LET style == parts[idx + 1].style
             r == draw_text(cv, parts[idx + 1].text, max_width - width)
             pre == out \o part_prefix(cv, style, matched) \o r.out
         IN  IF r.brk
             THEN wrap_result(pre, r.rest, idx)
             ELSE draw_texts_from(cv, parts, matched, max_width, idx + 1, width + r.width,
                                  pre \o unset_font_style(style.font_style))

draw_texts(cv, parts, matched, max_width) ==
    draw_texts_from(cv, parts, matched, max_width, 0, 0,
                    IF matched /\ cv.match_color # None
                    THEN set_bg(cv.match_color[1], cv.true_color) ELSE <<>>)

-----------------------------------------------------------------------------
(* Themes, styles and the highlighter *)

\* Theme names the two embedded theme sets may hold
ThemeNames == {"ansi", "Monokai Extended", "Nord", "base16-ocean.dark"}

\* The settings of a theme of the embedded sets, as far as the Drawer reads them:
\* a 24-bit theme with every colour set, and the "ansi" theme whose colours
\* carry the a = 0 / a = 1 encodings and which sets no gutter or highlight colour
ThemeSettings(name) ==
    IF name = "ansi"
    THEN [background |-> None,
          foreground |-> Some(Color(0, 0, 0, 1)),
          gutter_foreground |-> None,
          line_highlight |-> None]
    ELSE [background |-> Some(Color(39, 40, 34, 255)),
          foreground |-> Some(Color(248, 248, 242, 255)),
          gutter_foreground |-> Some(Color(9, 0, 0, 0)),
          line_highlight |-> Some(Color(59, 58, 50, 255))]

\* The styles the highlighter hands out, by theme
StyleA(name) ==
    IF name = "ansi"
    THEN [foreground |-> Color(3, 0, 0, 0), background |-> Color(0, 0, 0, 1), font_style |-> {}]
    ELSE [foreground |-> Color(249, 38, 114, 255), background |-> Color(39, 40, 34, 255),
          font_style |-> {}]

StyleB(name) ==
    IF name = "ansi"
    THEN [foreground |-> Color(0, 0, 0, 1), background |-> Color(0, 0, 0, 1),
          font_style |-> {"BOLD"}]
    ELSE [foreground |-> Color(102, 217, 239, 255), background |-> Color(39, 40, 34, 255),
          font_style |-> {"BOLD", "UNDERLINE", "ITALIC"}]

\* The slices of `line` between the cut positions, from position `from` on,
\* styled alternately; HighlightIterator yields no empty slice
RECURSIVE Tokenize(_, _, _, _, _)
Tokenize(line, cuts, from, k, name) ==
    IF from > Len(line) THEN <<>>
    ELSE LET later == {p \in cuts : p >= from /\ p < Len(line)}
             to == IF later = {} THEN Len(line)
                   ELSE CHOOSE p \in later : \A q \in later : p <= q
         IN  <<[style |-> IF k % 2 = 0 THEN StyleA(name) ELSE StyleB(name),
                text |-> SubSeq(line, from, to)]>>
             \o Tokenize(line, cuts, to + 1, k + 1, name)

\* LineHighlighter: the parser state is the sequence of lines it has consumed
LineHighlighter_new == <<>>

\* skip_line that leaves the parser where it was
skip_line_elided(hl, lnum) == hl

skip_line(hl, lnum) == Append(hl, [how |-> "skip", lnum |-> lnum])

highlight_state(hl, lnum) == Append(hl, [how |-> "highlight", lnum |-> lnum])

highlight(line, cuts, name) == Tokenize(line, cuts, 1, 0, name)

\* String::from_utf8_lossy: "#" stands for a byte that is no valid UTF-8,
\* "?" for U+FFFD
from_utf8_lossy(bytes) == [i \in 1..Len(bytes) |-> IF bytes[i] = "#" THEN "?" ELSE bytes[i]]

-----------------------------------------------------------------------------
(* LinesInclusive *)

LinesInclusive_new == [lnum |-> 1, prev |-> 0]

\* memchr: the 1-based positions of the newlines of buf after the first `prev` bytes
NewlinesAfter(buf, prev) == {j \in (prev + 1)..Len(buf) : buf[j] = "\n"}

\* the iterator that yields lines without their newline
LinesInclusive_next_exclusive(buf, it) ==
    IF NewlinesAfter(buf, it.prev) # {}
    THEN LET end == CHOOSE j \in NewlinesAfter(buf, it.prev) :
                        \A q \in NewlinesAfter(buf, it.prev) : j <= q
         IN  [some |-> TRUE, line |-> SubSeq(buf, it.prev + 1, end - 1), lnum |-> it.lnum,
              it |-> [lnum |-> it.lnum + 1, prev |-> end]]
    ELSE IF it.prev = Len(buf)
    THEN [some |-> FALSE, line |-> <<>>, lnum |-> 0, it |-> it]
    ELSE [some |-> TRUE, line |-> Tail0(buf, it.prev), lnum |-> it.lnum,
          it |-> [lnum |-> it.lnum, prev |-> Len(buf)]]

\* LinesInclusive::next: [some, line, lnum, it]
LinesInclusive_next(buf, it) ==
    IF NewlinesAfter(buf, it.prev) # {}
    THEN LET end == CHOOSE j \in NewlinesAfter(buf, it.prev) :
                        \A q \in NewlinesAfter(buf, it.prev) : j <= q
         IN  [some |-> TRUE, line |-> SubSeq(buf, it.prev + 1, end), lnum |-> it.lnum,
              it |-> [lnum |-> it.lnum + 1, prev |-> end]]
    ELSE IF it.prev = Len(buf)
    THEN [some |-> FALSE, line |-> <<>>, lnum |-> 0, it |-> it]
    ELSE [some |-> TRUE, line |-> Tail0(buf, it.prev), lnum |-> it.lnum,
          it |-> [lnum |-> it.lnum, prev |-> Len(buf)]]

-----------------------------------------------------------------------------
(* Drawer *)

\* the drawer whose gutter is never widened for the "..." of the separator
Drawer_new_narrow_gutter(opts, theme, chunks) ==
    LET last_lnum == IF chunks = <<>> THEN 0 ELSE chunks[Len(chunks)][2]
    IN  [theme |-> theme,
         grid |-> opts.grid,
         term_width |-> opts.term_width,
         lnum_width |-> num_digits(last_lnum),
         background |-> opts.background_color,
         gutter_color |-> IF theme.gutter_foreground # None THEN theme.gutter_foreground[1]
                          ELSE Color(128, 128, 128, 255),
         canvas |-> [theme |-> theme,
                     true_color |-> opts.color_support = "True",
                     tab_width |-> opts.tab_width,
                     background |-> opts.background_color,
                     match_color |-> IF theme.line_highlight # None THEN theme.line_highlight
                                     ELSE theme.background]]

\* A drawer is [theme, grid, term_width, lnum_width, background, gutter_color, canvas]
Drawer_new(opts, theme, chunks) ==
    LET last_lnum == IF chunks = <<>> THEN 0 ELSE chunks[Len(chunks)][2]
        w == num_digits(last_lnum)
    IN  [theme |-> theme,
         grid |-> opts.grid,
         term_width |-> opts.term_width,
         lnum_width |-> IF Len(chunks) > 1 THEN Max(w, 3) ELSE w,
         background |-> opts.background_color,
         gutter_color |-> IF theme.gutter_foreground # None THEN theme.gutter_foreground[1]
                          ELSE Color(128, 128, 128, 255),
         canvas |-> [theme |-> theme,
                     true_color |-> opts.color_support = "True",
                     tab_width |-> opts.tab_width,
                     background |-> opts.background_color,
                     match_color |-> IF theme.line_highlight # None THEN theme.line_highlight
                                     ELSE theme.background]]

gutter_width(d) == IF d.grid THEN d.lnum_width + 4 ELSE d.lnum_width + 2

draw_horizontal_line(d, sep) ==
    set_fg(d.gutter_color, d.canvas.true_color)
    \o set_default_bg(d.canvas)
    \o Repeat(Ch("-"), gutter_width(d) - 2)
    \o <<Ch(sep)>>
    \o Repeat(Ch("-"), d.term_width - gutter_width(d) + 1)
    \o reset_color
    \o <<Newline>>

draw_line_number(d, lnum, matched) ==
    set_fg(IF matched THEN d.theme.foreground[1] ELSE d.gutter_color, d.canvas.true_color)
    \o set_default_bg(d.canvas)
    \o draw_spaces(d.lnum_width - num_digits(lnum))
    \o <<Space, Num(lnum)>>
    \o (IF d.grid
        THEN (IF matched THEN set_fg(d.gutter_color, d.canvas.true_color) ELSE <<>>)
             \o <<Space, Ch("|")>>
        ELSE <<>>)
    \o set_default_bg(d.canvas)
    \o <<Space>>

draw_wrapping_gutter(d) ==
    set_fg(d.gutter_color, d.canvas.true_color)
    \o set_default_bg(d.canvas)
    \o draw_spaces(d.lnum_width + 2)
    \o (IF d.grid THEN <<Ch("|"), Space>> ELSE <<>>)

\* the "..." of the separator line, one token per column
Dots == <<Ch("."), Ch("."), Ch(".")>>

draw_separator_line(d) ==
    LET left_margin == d.lnum_width + 1 - 3
        w == IF d.grid THEN 5 ELSE 3
    IN  set_fg(d.gutter_color, d.canvas.true_color)
        \o set_default_bg(d.canvas)
        \o draw_spaces(left_margin)
        \o (IF d.grid THEN Dots \o <<Space, Ch("+")>> ELSE Dots)
        \o set_default_bg(d.canvas)
        \o Repeat(Ch("-"), d.term_width - left_margin - w)
        \o <<Newline>>

\* The chomp at the head of draw_line: the last part loses its "\n", then its "\r"
chomp(parts) ==
    IF parts = <<>> THEN parts
    ELSE LET n == Len(parts)
             s == parts[n].text
             s1 == IF s # <<>> /\ s[Len(s)] = "\n" THEN SubSeq(s, 1, Len(s) - 1) ELSE s
             s2 == IF s1 # s /\ s1 # <<>> /\ s1[Len(s1)] = "\r"
                   THEN SubSeq(s1, 1, Len(s1) - 1) ELSE s1
         IN  [parts EXCEPT ![n].text = s2]

\* the wrap that always goes on with the next part
rest_parts_drops_rest(parts, rest, idx) == Tail0(parts, idx + 1)

\* The parts the wrap loop of draw_line goes on with after Wrap(rest, idx)
rest_parts(parts, rest, idx) ==
    IF rest = <<>> THEN Tail0(parts, idx + 1)
    ELSE [Tail0(parts, idx) EXCEPT ![1].text = rest]

draw_header(d, path) ==
    draw_horizontal_line(d, "-")
    \o set_default_bg(d.canvas)
    \o set_bold
    \o <<Space>> \o Chars(path)
    \o (IF d.background THEN fill_spaces(TextWidth(path) + 1, d.term_width) ELSE reset_color)
    \o <<Newline>>
    \o (IF d.grid THEN draw_horizontal_line(d, "T") ELSE <<>>)

draw_footer(d) == IF d.grid THEN draw_horizontal_line(d, "L") ELSE <<>>

-----------------------------------------------------------------------------
(* The printer: construction and theme lookup *)

\* Display of PrintError and of an io::Error carried by anyhow, as a sequence
\* of the pieces the message is formatted from
PrintError_new(message) == [kind |-> "PrintError", message |-> message]
IoError(message) == [kind |-> "io", message |-> <<message>>]

Display(err) ==
    IF err.kind = "PrintError"
    THEN <<"Error while printing output with syntect: ">> \o err.message
    ELSE err.message

NoResult == [kind |-> "none", err |-> IoError("")]
Ok == [kind |-> "ok", err |-> IoError("")]
Err(e) == [kind |-> "err", err |-> e]

NoThemes == [from |-> "none", names |-> {}]

\* the lookup that never falls back to the default theme set
load_themes_primary_only(name, bat, dflt) ==
    IF name = None \/ name[1] \in bat
    THEN [ok |-> TRUE, themes |-> [from |-> "bat", names |-> bat], err |-> IoError("")]
    ELSE [ok |-> FALSE, themes |-> NoThemes,
          err |-> PrintError_new(<<"Unknown theme", " '", name[1], "'. See --list-themes output">>)]

\* load_themes: Ok(theme set) or Err(PrintError)
load_themes(name, bat, dflt) ==
    IF name = None THEN [ok |-> TRUE, themes |-> [from |-> "bat", names |-> bat], err |-> IoError("")]
    ELSE IF name[1] \in bat
    THEN [ok |-> TRUE, themes |-> [from |-> "bat", names |-> bat], err |-> IoError("")]
    ELSE IF name[1] \in dflt
    THEN [ok |-> TRUE, themes |-> [from |-> "defaults", names |-> dflt], err |-> IoError("")]
    ELSE [ok |-> FALSE, themes |-> NoThemes,
          err |-> PrintError_new(<<"Unknown theme", " '", name[1], "'. See --list-themes output">>)]

\* the keys of a theme set in the order its BTreeMap iterates them (byte order)
ThemeOrder == <<"Monokai Extended", "Nord", "ansi", "base16-ocean.dark">>

Keys(themes) == SelectSeq(ThemeOrder, LAMBDA n : n \in themes)

\* writeln!(out, "{}", name)
NameLine(name) == <<Tok("str", name, <<>>), Newline>>

\* the inner loop of list_themes that writes every name it is handed
RECURSIVE write_unseen_no_dedup(_, _, _)
write_unseen_no_dedup(names, seen, out) ==
    IF names = <<>> THEN [seen |-> seen, out |-> out]
    ELSE write_unseen_no_dedup(Tail(names), seen \cup {Head(names)}, out \o NameLine(Head(names)))

\* the inner loop of list_themes over the keys of one theme set
RECURSIVE write_unseen(_, _, _)
write_unseen(names, seen, out) ==
    IF names = <<>> THEN [seen |-> seen, out |-> out]
    ELSE IF Head(names) \in seen THEN write_unseen(Tail(names), seen, out)
    ELSE write_unseen(Tail(names), seen \cup {Head(names)}, out \o NameLine(Head(names)))

\* the listing that never looks at the names already written
list_themes_no_dedup(bat, dflt) ==
    LET first == write_unseen_no_dedup(Keys(bat), {}, <<>>)
    IN  write_unseen_no_dedup(Keys(dflt), first.seen, first.out).out

\* list_themes: what it writes to `out` when no write fails
list_themes(bat, dflt) ==
    LET first == write_unseen(Keys(bat), {}, <<>>)
    IN  write_unseen(Keys(dflt), first.seen, first.out).out

\* SyntectPrinter::theme: the name print looks up in the printer's theme set
theme_name(opts) ==
    IF opts.theme # None THEN opts.theme[1]
    ELSE IF opts.color_support = "Ansi16" THEN "ansi" ELSE "Monokai Extended"

\* SyntectPrinter::new
New ==
    /\ printer.status = "none"
    /\ LET r == load_themes(printer.opts.theme, bat_defaults, defaults)
       IN  printer' = [printer EXCEPT !.status = IF r.ok THEN "ok" ELSE "err",
                                      !.themes = r.themes,
                                      !.err = r.err]
    /\ UNCHANGED <<call, bat_defaults, defaults, th, sink, lock>>

-----------------------------------------------------------------------------
(* print, one thread: the state of a call and its steps *)

NewCall(file, cuts) ==
    [pc |-> "start", file |-> file, cuts |-> cuts, theme |-> "", buf |-> <<>>, d |-> <<>>,
     it |-> LinesInclusive_new, matched |-> <<>>, chunk |-> <<0, 0>>, chunks_next |-> 1,
     hl |-> <<>>, parts |-> <<>>, lnum |-> 0, line_matched |-> FALSE, rowkind |-> "",
     rows |-> 0, result |-> NoResult, nwritten |-> 0, nwrites |-> 0,
     rowlog |-> <<>>, ev |-> <<>>, rendered |-> <<>>, raised |-> ""]

Row(kind, lnum, matched) == [kind |-> kind, lnum |-> lnum, matched |-> matched]

\* the early return that looks at the chunks only
EmptyFile_chunks_only(file) == file.chunks = <<>>

\* file.chunks.is_empty() || file.line_numbers.is_empty()
EmptyFile(file) == file.chunks = <<>> \/ file.line_numbers = <<>>

\* print returns: the per-file buffer and the drawer are dropped
Return(s, result) == [s EXCEPT !.pc = "returned", !.result = result, !.buf = <<>>]

\* print up to the call of draw_body: early return, theme lookup,
\* Drawer::new, draw_header, LineHighlighter::new, the head of draw_body
print_start(s, p) ==
    IF EmptyFile(s.file) THEN Return(s, Ok)
    ELSE IF theme_name(p.opts) \notin p.themes.names THEN [s EXCEPT !.pc = "panicked"]
    ELSE LET name == theme_name(p.opts)
             d == Drawer_new(p.opts, ThemeSettings(name), s.file.chunks)
         IN  [s EXCEPT !.pc = "body",
                       !.theme = name,
                       !.d = d,
                       !.buf = draw_header(d, s.file.path),
                       !.rowlog = <<Row("rule", 0, FALSE), Row("path", 0, FALSE)>>
                                  \o (IF d.grid THEN <<Row("rule", 0, FALSE)>> ELSE <<>>),
                       !.hl = LineHighlighter_new,
                       !.matched = s.file.line_numbers,
                       !.chunk = s.file.chunks[1],
                       !.chunks_next = 2,
                       !.it = LinesInclusive_new]

\* the head of the matches compared one line off
is_matched_off_by_one(matched, lnum) == matched # <<>> /\ matched[1] = lnum + 1

\* matched.first() == Some(lnum)
is_matched(matched, lnum) == matched # <<>> /\ matched[1] = lnum

\* the loop iteration that also skips the first line of a chunk
draw_body_next_skips_start(s) ==
    LET n == LinesInclusive_next(s.file.contents, s.it)
        start == s.chunk[1]
        end == s.chunk[2]
    IN  IF ~n.some THEN [s EXCEPT !.pc = "footer", !.it = n.it]
        ELSE IF n.lnum <= start
        THEN [s EXCEPT !.it = n.it, !.hl = skip_line(s.hl, n.lnum)]
        ELSE IF n.lnum <= end
        THEN LET m == is_matched(s.matched, n.lnum)
             IN  [s EXCEPT !.it = n.it,
                           !.matched = IF m THEN Tail(s.matched) ELSE s.matched,
                           !.hl = highlight_state(s.hl, n.lnum),
                           !.parts = chomp(highlight(from_utf8_lossy(n.line), s.cuts, s.theme)),
                           !.lnum = n.lnum,
                           !.line_matched = m,
                           !.buf = s.buf \o draw_line_number(s.d, n.lnum, m),
                           !.rowkind = "body",
                           !.rows = 0,
                           !.pc = "wrap"]
        ELSE [s EXCEPT !.it = n.it]

\* One iteration of the for loop of draw_body, up to the wrap loop of draw_line
draw_body_next(s) ==
    LET n == LinesInclusive_next(s.file.contents, s.it)
        start == s.chunk[1]
        end == s.chunk[2]
    IN  IF ~n.some THEN [s EXCEPT !.pc = "footer", !.it = n.it]
        ELSE IF n.lnum < start
        THEN [s EXCEPT !.it = n.it, !.hl = skip_line(s.hl, n.lnum)]
        ELSE IF start <= n.lnum /\ n.lnum <= end
        THEN LET m == is_matched(s.matched, n.lnum)
             IN  [s EXCEPT !.it = n.it,
                           !.matched = IF m THEN Tail(s.matched) ELSE s.matched,
                           !.hl = highlight_state(s.hl, n.lnum),
                           !.parts = chomp(highlight(from_utf8_lossy(n.line), s.cuts, s.theme)),
                           !.lnum = n.lnum,
                           !.line_matched = m,
                           !.buf = s.buf \o draw_line_number(s.d, n.lnum, m),
                           !.rowkind = "body",
                           !.rows = 0,
                           !.pc = "wrap"]
        ELSE [s EXCEPT !.it = n.it]

\* the end of the chunk without the separator line
chunk_end_no_separator(s) ==
    IF s.lnum = s.chunk[2]
    THEN IF s.chunks_next <= Len(s.file.chunks)
         THEN [s EXCEPT !.chunk = s.file.chunks[s.chunks_next],
                        !.chunks_next = s.chunks_next + 1,
                        !.pc = "body"]
         ELSE [s EXCEPT !.pc = "footer"]
    ELSE [s EXCEPT !.pc = "body"]

\* draw_body after draw_line returned: the end of the chunk
chunk_end(s) ==
    IF s.lnum = s.chunk[2]
    THEN IF s.chunks_next <= Len(s.file.chunks)
         THEN [s EXCEPT !.buf = s.buf \o draw_separator_line(s.d),
                        !.rowlog = Append(s.rowlog, Row("sep", 0, FALSE)),
                        !.chunk = s.file.chunks[s.chunks_next],
                        !.chunks_next = s.chunks_next + 1,
                        !.pc = "body"]
         ELSE [s EXCEPT !.pc = "footer"]
    ELSE [s EXCEPT !.pc = "body"]

\* One iteration of the wrap loop of draw_line: a call of draw_texts and what follows it
draw_line_step(s) ==
    LET r == draw_texts(s.d.canvas, s.parts, s.line_matched, s.d.term_width - gutter_width(s.d))
        row == Row(s.rowkind, s.lnum, s.line_matched)
    IN  IF r.wrap
        THEN [s EXCEPT !.buf = s.buf \o r.out \o <<Newline>> \o draw_wrapping_gutter(s.d),
                       !.rowlog = Append(s.rowlog, row),
                       !.rowkind = "cont",
                       !.parts = rest_parts(s.parts, r.rest, r.idx),
                       !.rows = s.rows + 1]
        ELSE chunk_end([s EXCEPT !.buf = s.buf \o r.out \o <<Newline>>,
                                 !.rowlog = Append(s.rowlog, row),
                                 !.parts = <<>>])

\* draw_footer, then print is about to take the lock
print_footer(s) ==
    LET out == s.buf \o draw_footer(s.d)
    IN  [s EXCEPT !.buf = out,
                  !.rowlog = s.rowlog \o (IF s.d.grid THEN <<Row("rule", 0, FALSE)>> ELSE <<>>),
                  !.rendered = out,
                  !.pc = "lock"]

\* how many bytes the next write of the sink may take of `remaining`: all, or
\* about half while write_all has writes left
WriteSizes(writer, remaining, nwrites) ==
    IF writer = "faulty" /\ nwrites + 1 < MaxWrites
    THEN {remaining, (remaining + 1) \div 2} ELSE {remaining}

\* messages of the errors the sink or the file system may raise
IoErrors == {"dummy error!", "Broken pipe (os error 32)"}

\* the error wrapped in a PrintError on its way out
Propagate_wrapped(e) == Err(PrintError_new(<<e>>))

\* `?` on an io::Error: print returns it as it is
Propagate(e) == Err(IoError(e))

\* a sink whose lock() never blocks
LockFree_always == TRUE

\* the sink's mutex is not held
LockFree == lock = NoThread

PrintStart(t) ==
    /\ printer.status = "ok"
    /\ th[t].pc = "start"
    /\ th' = [th EXCEPT ![t] = print_start(th[t], printer)]
    /\ UNCHANGED <<call, bat_defaults, defaults, printer, sink, lock>>

\* find_syntax fails (the file cannot be read): print returns the error
PrintSyntaxError(t) ==
    /\ printer.status = "ok"
    /\ th[t].pc = "start"
    /\ ~EmptyFile(th[t].file)
    /\ theme_name(printer.opts) \in printer.themes.names
    /\ \E e \in IoErrors : th' = [th EXCEPT ![t] = Return([th[t] EXCEPT !.raised = e], Propagate(e))]
    /\ UNCHANGED <<call, bat_defaults, defaults, printer, sink, lock>>

BodyNext(t) ==
    /\ th[t].pc = "body"
    /\ th' = [th EXCEPT ![t] = draw_body_next(th[t])]
    /\ UNCHANGED <<call, bat_defaults, defaults, printer, sink, lock>>

WrapStep(t) ==
    /\ th[t].pc = "wrap"
    /\ th[t].rows < MaxRows
    /\ th' = [th EXCEPT ![t] = draw_line_step(th[t])]
    /\ UNCHANGED <<call, bat_defaults, defaults, printer, sink, lock>>

Footer(t) ==
    /\ th[t].pc = "footer"
    /\ th' = [th EXCEPT ![t] = print_footer(th[t])]
    /\ UNCHANGED <<call, bat_defaults, defaults, printer, sink, lock>>

\* self.writer.lock(): blocks until the sink is free
Lock(t) ==
    /\ th[t].pc = "lock"
    /\ LockFree
    /\ lock' = t
    /\ th' = [th EXCEPT ![t].pc = "write", ![t].ev = Append(@, "lock")]
    /\ UNCHANGED <<call, bat_defaults, defaults, printer, sink>>

\* the events a step of write_all adds: the call itself on its first step
WriteEvents(s) == IF s.nwritten = 0 THEN <<"write_all">> ELSE <<>>

\* output.write_all(&buf): one write of the sink takes some of the remaining bytes
WriteStep(t) ==
    /\ th[t].pc = "write"
    /\ \E n \in WriteSizes(printer.writer, Len(th[t].buf) - th[t].nwritten, th[t].nwrites) :
         /\ n > 0
         /\ sink' = sink \o SubSeq(th[t].buf, th[t].nwritten + 1, th[t].nwritten + n)
         /\ th' = [th EXCEPT ![t].nwritten = @ + n,
                             ![t].nwrites = @ + 1,
                             ![t].ev = @ \o WriteEvents(th[t]),
                             ![t].pc = IF th[t].nwritten + n = Len(th[t].buf)
                                       THEN "flush" ELSE "write"]
    /\ UNCHANGED <<call, bat_defaults, defaults, printer, lock>>

\* a guard that is never dropped
Unlock_kept(t) == lock

\* what the guard's drop does to the lock
Unlock(t) == IF lock = t THEN NoThread ELSE lock

\* write_all returns an error: `?` returns it, the guard is dropped
WriteFail(t) ==
    /\ th[t].pc = "write"
    /\ printer.writer = "faulty"
    /\ \E e \in IoErrors :
         th' = [th EXCEPT ![t] = Return([th[t] EXCEPT !.ev = @ \o WriteEvents(th[t]) \o <<"unlock">>,
                                                      !.raised = e],
                                        Propagate(e))]
    /\ lock' = Unlock(t)
    /\ UNCHANGED <<call, bat_defaults, defaults, printer, sink>>

\* output.flush() succeeds: print returns Ok, the guard is dropped
Flush(t) ==
    /\ th[t].pc = "flush"
    /\ th' = [th EXCEPT ![t] = Return([th[t] EXCEPT !.ev = @ \o <<"flush", "unlock">>], Ok)]
    /\ lock' = Unlock(t)
    /\ UNCHANGED <<call, bat_defaults, defaults, printer, sink>>

FlushFail(t) ==
    /\ th[t].pc = "flush"
    /\ printer.writer = "faulty"
    /\ \E e \in IoErrors :
         th' = [th EXCEPT ![t] = Return([th[t] EXCEPT !.ev = @ \o <<"flush", "unlock">>,
                                                      !.raised = e],
                                        Propagate(e))]
    /\ lock' = Unlock(t)
    /\ UNCHANGED <<call, bat_defaults, defaults, printer, sink>>

PrintCall(t) ==
    \/ PrintStart(t)
    \/ PrintSyntaxError(t)
    \/ BodyNext(t)
    \/ WrapStep(t)
    \/ Footer(t)
    \/ Lock(t)
    \/ WriteStep(t)
    \/ WriteFail(t)
    \/ Flush(t)
    \/ FlushFail(t)

Next == New \/ \E t \in Threads : PrintCall(t)

-----------------------------------------------------------------------------
(* Inputs *)

File(path, line_numbers, chunks, contents) ==
    [path |-> path, line_numbers |-> line_numbers, chunks |-> chunks, contents |-> contents]

Digit == <<"1", "2", "3", "4", "5">>

\* the path of the file thread t prints
PathOf(t) == <<"f", Digit[t], ".", "r", "s">>

\* n lines "a\n"
RECURSIVE PlainLines(_)
PlainLines(n) == IF n = 0 THEN <<>> ELSE <<"a", "\n">> \o PlainLines(n - 1)

\* the strictly increasing sequence of the elements of a set of numbers
RECURSIVE Sorted(_)
Sorted(S) ==
    IF S = {} THEN <<>>
    ELSE LET m == CHOOSE x \in S : \A y \in S : x <= y IN <<m>> \o Sorted(S \ {m})

\* chunks as the data model has them: start <= end, each chunk after the one before
Ordered(chunks) ==
    /\ \A i \in 1..Len(chunks) : chunks[i][1] <= chunks[i][2]
    /\ \A i \in 1..(Len(chunks) - 1) : chunks[i][2] < chunks[i + 1][1]

ChunkPairs == {<<s, e>> : s \in 0..MaxLnum, e \in 1..MaxLnum}

\* chunk lists that break the data model: unordered, overlapping, end before start
MalformedChunks == {<<<<3, 3>>, <<1, 2>>>>, <<<<1, 2>>, <<2, 3>>>>, <<<<2, 1>>, <<3, 3>>>>}

BodyChunks == {cs \in SeqsUpTo(ChunkPairs, MaxChunks) : Ordered(cs)} \cup MalformedChunks

\* the files of the body specification: plain lines, every chunk list, every
\* list of matches inside the file, the last line with and without its newline
BodyFiles ==
    {File(PathOf(1), Sorted(ms), cs, PlainLines(n)) :
        ms \in SUBSET (1..MaxLines), cs \in BodyChunks, n \in {MaxLines - 1, MaxLines}}
    \cup {File(PathOf(1), Sorted(ms), cs, SubSeq(PlainLines(MaxLines), 1, 2 * MaxLines - 1)) :
        ms \in {{1}, {MaxLines}}, cs \in BodyChunks}

\* the characters of the line-content inputs
Alphabet == {"a", "W", "\t"}

\* the files of the line specification: line 1 is any text, line 2 is "a";
\* each line is a chunk of its own, and one of them is the match
LineFiles ==
    {File(PathOf(1), <<m>>, <<<<1, 1>>, <<2, 2>>>>, line \o <<"\n", "a", "\n">>) :
        m \in {1, 2}, line \in SeqsUpTo(Alphabet, MaxLineLen)}
    \cup {File(PathOf(1), <<>>, <<>>, <<>>)}

\* theme, colour support and tab width of the line specification
LineLooks == {<<None, "True", 2>>, <<Some("ansi"), "Ansi256", 0>>}

\* the files thread t prints in the concurrent specification
SharedFiles(t) ==
    {File(PathOf(t), <<>>, <<<<1, 1>>>>, <<"a", "\n">>),
     File(PathOf(t), <<1>>, <<>>, <<"a", "\n">>),
     File(PathOf(t), <<1>>, <<<<1, 1>>>>, <<"a", "a", "a", "\n">>)}

Options(theme, grid, background_color, tab_width, term_width, color_support) ==
    [theme |-> theme, grid |-> grid, background_color |-> background_color,
     tab_width |-> tab_width, term_width |-> term_width, color_support |-> color_support]

\* the theme sets of the embedded assets, as far as the tests name their themes
BatThemes == {"ansi", "Monokai Extended", "Nord"}
DefaultThemes == {"base16-ocean.dark"}

\* The sink a printer is constructed over is "reliable" (every write takes the
\* whole buffer, nothing fails, as the tests' DummyStdout) or "faulty" (a write
\* may take part of the buffer, write_all and flush may fail, as ErrorStdout)
Writers == {"reliable", "faulty"}

NewPrinter(out, opts) ==
    [status |-> "none", writer |-> out, opts |-> opts, themes |-> NoThemes, err |-> IoError("")]

\* `call` is a call of one of the free-standing functions (LinesInclusive,
\* Canvas::set_fg / set_bg, list_themes) with its arguments and what it has
\* produced so far; the printer specifications make no such call
NoCall == [fn |-> "none"]

Idle == [NewCall(File(<<>>, <<>>, <<>>, <<>>), {}) EXCEPT !.pc = "idle"]

\* Threads print files of their own on one printer
Init ==
    /\ bat_defaults = BatThemes
    /\ defaults = DefaultThemes
    /\ \E out \in Writers, grid \in BOOLEAN :
         printer = NewPrinter(out, Options(None, grid, FALSE, 4, 8, "True"))
    /\ th \in [Threads -> UNION {{NewCall(f, {}) : f \in SharedFiles(t)} : t \in Threads}]
    /\ \A t \in Threads : th[t].file.path = PathOf(t)
    /\ sink = <<>>
    /\ lock = NoThread
    /\ call = NoCall

\* One thread prints a file of plain lines with any chunks and matches
InitBody ==
    /\ bat_defaults = BatThemes
    /\ defaults = DefaultThemes
    /\ \E f \in BodyFiles, grid \in BOOLEAN, out \in Writers :
         /\ out = "faulty" => f.chunks = <<<<1, 1>>>>
         /\ printer = NewPrinter(out, Options(None, grid, FALSE, 4, 8, "True"))
         /\ th = [t \in Threads |-> IF t = 1 THEN NewCall(f, {}) ELSE Idle]
    /\ sink = <<>>
    /\ lock = NoThread
    /\ call = NoCall

\* One thread prints a file whose first line is any text, under any options
InitLine ==
    /\ bat_defaults = BatThemes
    /\ defaults = DefaultThemes
    /\ \E f \in LineFiles, cuts \in {{}} \cup {{p} : p \in 1..MaxLineLen},
          look \in LineLooks, grid \in BOOLEAN, bg \in BOOLEAN, body \in {2, 3}, out \in Writers :
         /\ \A p \in cuts : p <= Len(f.contents) - 3
         /\ out = "faulty" => Len(f.contents) <= 3
         /\ printer = NewPrinter(out, Options(look[1], grid, bg, look[3],
                                              (IF grid THEN 7 ELSE 5) + body, look[2]))
         /\ th = [t \in Threads |-> IF t = 1 THEN NewCall(f, cuts) ELSE Idle]
    /\ sink = <<>>
    /\ lock = NoThread
    /\ call = NoCall

\* the characters of the wrapping inputs: narrow, wide, zero-width, tab
WrapAlphabet == Alphabet \cup {"Z"}

\* the files of the wrapping specification: as LineFiles, over WrapAlphabet
WrapFiles ==
    {File(PathOf(1), <<m>>, <<<<1, 1>>, <<2, 2>>>>, line \o <<"\n", "a", "\n">>) :
        m \in {1, 2}, line \in SeqsUpTo(WrapAlphabet, MaxLineLen)}
    \cup {File(PathOf(1), <<>>, <<>>, <<>>)}

\* One thread prints a file whose first line is any text on a terminal that
\* leaves the body one or two columns
InitWrap ==
    /\ bat_defaults = BatThemes
    /\ defaults = DefaultThemes
    /\ \E f \in WrapFiles, cuts \in {{}} \cup {{p} : p \in 1..MaxLineLen},
          look \in LineLooks, grid \in BOOLEAN, body \in {1, 2}, out \in Writers :
         /\ \A p \in cuts : p <= Len(f.contents) - 3
         /\ out = "faulty" => Len(f.contents) <= 3
         /\ printer = NewPrinter(out, Options(look[1], grid, FALSE, look[3],
                                              (IF grid THEN 7 ELSE 5) + body, look[2]))
         /\ th = [t \in Threads |-> IF t = 1 THEN NewCall(f, cuts) ELSE Idle]
    /\ sink = <<>>
    /\ lock = NoThread
    /\ call = NoCall

\* chunks of one or two lines at the first and at the last lines of a file of
\* ManyLines lines
GutterChunkPairs ==
    {<<s, e>> \in {1, ManyLines - 1, ManyLines} \X {1, ManyLines - 1, ManyLines} :
        s <= e /\ e <= s + 1}

GutterChunks == {cs \in SeqsUpTo(GutterChunkPairs, 2) : cs # <<>> /\ Ordered(cs)}

\* the first lines of the files of the gutter specification
GutterFirstLines == {<<"a", "\t", "a", "\n">>, <<"W", "a", "\n">>}

\* files of ManyLines lines, a match at the first or the last line
GutterFiles ==
    {File(PathOf(1), <<m>>, cs, first \o PlainLines(ManyLines - 1)) :
        m \in {1, ManyLines}, cs \in GutterChunks, first \in GutterFirstLines}

\* One thread prints a long file on a terminal one or two columns wider than
\* the gutter its chunks need
InitGutter ==
    /\ bat_defaults = BatThemes
    /\ defaults = DefaultThemes
    /\ \E f \in GutterFiles, grid \in BOOLEAN, body \in {1, 2}, out \in Writers :
         LET probe == Drawer_new(Options(None, grid, FALSE, 2, 0, "True"),
                                 ThemeSettings("Monokai Extended"), f.chunks)
         IN  /\ out = "faulty" => Len(f.chunks) = 1 /\ f.chunks[1][2] = 1
             /\ printer = NewPrinter(out, Options(None, grid, FALSE, 2,
                                                  gutter_width(probe) + body, "True"))
             /\ th = [t \in Threads |-> IF t = 1 THEN NewCall(f, {}) ELSE Idle]
    /\ sink = <<>>
    /\ lock = NoThread
    /\ call = NoCall

\* A printer is constructed over any two theme sets with any theme name
InitThemes ==
    /\ bat_defaults \in SUBSET ThemeNames
    /\ defaults \in SUBSET ThemeNames
    /\ \E theme \in {None} \cup {Some(n) : n \in ThemeNames \cup {"this theme does not exist"}},
          cs \in {"True", "Ansi256", "Ansi16"}, out \in Writers :
         /\ out = "faulty" => theme = None
         /\ printer = NewPrinter(out, Options(theme, TRUE, FALSE, 4, 8, cs))
    /\ th = [t \in Threads |-> IF t = 1 THEN NewCall(File(PathOf(1), <<1>>, <<<<1, 1>>>>,
                                                      <<"a", "a", "a", "\n">>), {})
                               ELSE Idle]
    /\ sink = <<>>
    /\ lock = NoThread
    /\ call = NoCall

Spec == Init /\ [][Next]_vars
SpecBody == InitBody /\ [][Next]_vars
SpecLine == InitLine /\ [][Next]_vars
SpecThemes == InitThemes /\ [][Next]_vars
SpecWrap == InitWrap /\ [][Next]_vars
SpecGutter == InitGutter /\ [][Next]_vars

-----------------------------------------------------------------------------
(* LinesInclusive on its own: a caller drains the iterator over any buffer *)

Bytes == {"a", "\r", "\n"}

InitLines ==
    /\ bat_defaults = BatThemes
    /\ defaults = DefaultThemes
    /\ printer = NewPrinter("reliable", Options(None, TRUE, FALSE, 4, 8, "True"))
    /\ th = [t \in Threads |-> Idle]
    /\ sink = <<>>
    /\ lock = NoThread
    /\ \E buf \in SeqsUpTo(Bytes, MaxBufLen) :
         call = [fn |-> "lines", buf |-> buf, it |-> LinesInclusive_new,
                 items |-> <<>>, done |-> FALSE]

\* one call of next() by a `for` loop over the iterator: Some(Line(line, lnum))
\* is collected, None ends the loop
LinesNext ==
    /\ call.fn = "lines"
    /\ ~call.done
    /\ LET n == LinesInclusive_next(call.buf, call.it)
       IN  call' = IF n.some
                   THEN [call EXCEPT !.it = n.it,
                                     !.items = Append(@, [line |-> n.line, lnum |-> n.lnum])]
                   ELSE [call EXCEPT !.done = TRUE]
    /\ UNCHANGED <<bat_defaults, defaults, printer, th, sink, lock>>

SpecLines == InitLines /\ [][LinesNext]_vars

-----------------------------------------------------------------------------
(* Canvas::set_fg / set_bg on their own: one colour set on a fresh canvas *)

\* values of the r channel: both sides of the r <= 7 split and of the grey ramp
RedLevels == {0, 7, 8, 128, 255}
GreenBlueLevels == {0, 128, 255}
\* values of the a channel: the two tags, and two plain alpha values
AlphaLevels == {0, 1, 2, 255}
ColorSupports == {"True", "Ansi256", "Ansi16"}

InitColors ==
    /\ bat_defaults = BatThemes
    /\ defaults = DefaultThemes
    /\ \E cs \in ColorSupports :
         printer = NewPrinter("reliable", Options(None, TRUE, FALSE, 4, 8, cs))
    /\ th = [t \in Threads |-> Idle]
    /\ sink = <<>>
    /\ lock = NoThread
    /\ \E which \in {"set_fg", "set_bg"}, r \in RedLevels, g, b \in GreenBlueLevels,
          a \in AlphaLevels :
         call = [fn |-> which, c |-> Color(r, g, b, a), out |-> <<>>, done |-> FALSE]

\* Drawer::new builds the canvas from the options, then the colour is set on it
SetColor ==
    /\ call.fn \in {"set_fg", "set_bg"}
    /\ ~call.done
    /\ LET cv == Drawer_new(printer.opts, ThemeSettings(theme_name(printer.opts)), <<>>).canvas
       IN  call' = [call EXCEPT !.done = TRUE,
                                !.out = IF call.fn = "set_fg" THEN set_fg(call.c, cv.true_color)
                                        ELSE set_bg(call.c, cv.true_color)]
    /\ UNCHANGED <<bat_defaults, defaults, printer, th, sink, lock>>

SpecColors == InitColors /\ [][SetColor]_vars

-----------------------------------------------------------------------------
(* list_themes on its own, over any two theme sets *)

InitList ==
    /\ bat_defaults \in SUBSET ThemeNames
    /\ defaults \in SUBSET ThemeNames
    /\ printer = NewPrinter("reliable", Options(None, TRUE, FALSE, 4, 8, "True"))
    /\ th = [t \in Threads |-> Idle]
    /\ sink = <<>>
    /\ lock = NoThread
    /\ call = [fn |-> "list_themes", out |-> <<>>, result |-> NoResult, raised |-> ""]

\* list_themes(out) returns Ok(()) with every line written
ListThemes ==
    /\ call.fn = "list_themes"
    /\ call.result = NoResult
    /\ call' = [call EXCEPT !.out = list_themes(bat_defaults, defaults), !.result = Ok]
    /\ UNCHANGED <<bat_defaults, defaults, printer, th, sink, lock>>

\* a writeln! fails after k names were written: `?` returns the error
ListThemesFail ==
    /\ call.fn = "list_themes"
    /\ call.result = NoResult
    /\ \E e \in IoErrors, k \in 0..Cardinality(ThemeNames) :
         /\ 2 * k < Len(list_themes(bat_defaults, defaults))
         /\ call' = [call EXCEPT !.out = SubSeq(list_themes(bat_defaults, defaults), 1, 2 * k),
                                  !.result = Propagate(e),
                                  !.raised = e]
    /\ UNCHANGED <<bat_defaults, defaults, printer, th, sink, lock>>

NextList == ListThemes \/ ListThemesFail

SpecList == InitList /\ [][NextList]_vars

-----------------------------------------------------------------------------
(* Reading a rendering: rows, and the facts about a file the claims condition on *)

\* the rows of a buffer: the tokens before each newline; `row` is the row being
\* read, which counts only once its newline is met
RECURSIVE SplitRows(_, _, _, _)
SplitRows(buf, i, row, rows) ==
    IF i > Len(buf) THEN rows
    ELSE IF buf[i].k = "nl" THEN SplitRows(buf, i + 1, <<>>, Append(rows, row))
    ELSE SplitRows(buf, i + 1, Append(row, buf[i]), rows)

Rows(buf) == SplitRows(buf, 1, <<>>, <<>>)

\* print is rendering, or has rendered and not yet locked the sink
Rendering(s) == s.pc \in {"body", "wrap", "footer", "lock"}

\* the number of lines LinesInclusive yields for a buffer
NumLines(buf) ==
    Cardinality({j \in 1..Len(buf) : buf[j] = "\n"})
    + (IF buf # <<>> /\ buf[Len(buf)] # "\n" THEN 1 ELSE 0)

InSomeChunk(file, n) ==
    \E i \in 1..Len(file.chunks) : file.chunks[i][1] <= n /\ n <= file.chunks[i][2]

StrictlyIncreasing(ns) == \A i \in 1..(Len(ns) - 1) : ns[i] < ns[i + 1]

\* draw_body has returned in this call
BodyDone(s) == s.pc \in {"footer", "lock", "write", "flush"}

BodyRows == {"body", "cont"}

-----------------------------------------------------------------------------
(* C2 *)

\* C2: whenever a line is highlighted (or skipped), the highlighter has consumed
\* exactly the lines before it, once each and in order: the i-th line the
\* highlighter consumes is line i of contents, for any file.
C2_HighlighterSeesEveryLineInOrder ==
    \A t \in Threads : \A i \in 1..Len(th[t].hl) : th[t].hl[i].lnum = i

\* A line of a second chunk is highlighted after a line between the two chunks
\* was skipped.
C2_Witness ==
    \E t \in Threads :
        \E i, j, k \in 1..Len(th[t].hl) :
            /\ i < j /\ j < k
            /\ th[t].hl[i].how = "highlight"
            /\ th[t].hl[j].how = "skip"
            /\ th[t].hl[k].how = "highlight"

-----------------------------------------------------------------------------
(* C5 *)

\* the file meets the data model and its matches lie in chunks and in the file
C5_Pre(file) ==
    /\ Ordered(file.chunks)
    /\ StrictlyIncreasing(file.line_numbers)
    /\ \A i \in 1..Len(file.line_numbers) :
         /\ InSomeChunk(file, file.line_numbers[i])
         /\ file.line_numbers[i] <= NumLines(file.contents)

C5_State(s) ==
    C5_Pre(s.file) =>
        /\ \A i \in 1..Len(s.rowlog) :
             s.rowlog[i].kind \in BodyRows =>
                (s.rowlog[i].matched <=> s.rowlog[i].lnum \in Range(s.file.line_numbers))
        /\ s.pc = "wrap" => (s.line_matched <=> s.lnum \in Range(s.file.line_numbers))
        /\ s.pc \in {"body", "wrap"} \cup {"footer", "lock", "write", "flush"} =>
             \E k \in 0..Len(s.file.line_numbers) : s.matched = Tail0(s.file.line_numbers, k)
        /\ BodyDone(s) => s.matched = <<>>

\* C5: for a file of the data model whose matches are strictly increasing, inside
\* a chunk and inside the file, a body line is drawn as matched iff its number is
\* one of line_numbers; the match cursor is a suffix of line_numbers that only
\* gets shorter, and it is empty when draw_body has returned.
C5_MatchedIffInLineNumbers ==
    /\ [](\A t \in Threads : C5_State(th[t]))
    /\ [][\A t \in Threads :
            (C5_Pre(th[t].file) /\ th[t].pc \in {"body", "wrap"})
                => Len(th'[t].matched) <= Len(th[t].matched)]_vars

\* Two chunks, a match in each, an unmatched line drawn too, and draw_body has returned.
C5_Witness ==
    \E t \in Threads :
        /\ C5_Pre(th[t].file)
        /\ BodyDone(th[t])
        /\ Len(th[t].file.line_numbers) = 2
        /\ Len(th[t].file.chunks) = 2
        /\ \E i \in 1..Len(th[t].rowlog) :
             th[t].rowlog[i].kind = "body" /\ ~th[t].rowlog[i].matched
        /\ \E i \in 1..Len(th[t].rowlog) :
             th[t].rowlog[i].kind = "body" /\ th[t].rowlog[i].matched

-----------------------------------------------------------------------------
(* C6 *)

SepRows(rl) == {i \in 1..Len(rl) : rl[i].kind = "sep"}

\* the separator at row i is the k-th separator of the body
SepNo(rl, i) == Cardinality({j \in SepRows(rl) : j <= i})

\* the k-th separator stands right after the last line of chunk k and, once
\* another row follows, right before the first line of chunk k + 1
SepInPlace(s, i) ==
    LET k == SepNo(s.rowlog, i) IN
    /\ k < Len(s.file.chunks)
    /\ i > 1
    /\ s.rowlog[i - 1].kind \in BodyRows
    /\ s.rowlog[i - 1].lnum = s.file.chunks[k][2]
    /\ i < Len(s.rowlog) =>
         /\ s.rowlog[i + 1].kind = "body"
         /\ s.rowlog[i + 1].lnum = s.file.chunks[k + 1][1]

\* chunks k and k + 1 leave at least one line between them
NonAdjacent(chunks, k) == chunks[k + 1][1] > chunks[k][2] + 1

\* every chunk begins inside the file
ChunksInFile(file) ==
    \A k \in 1..Len(file.chunks) : file.chunks[k][1] <= NumLines(file.contents)

\* the chunks of the data model: ordered, non-overlapping, 1 <= start <= end
DataModelChunks(chunks) ==
    /\ Ordered(chunks)
    /\ \A i \in 1..Len(chunks) : 1 <= chunks[i][1]

-----------------------------------------------------------------------------
(* C3 *)

\* the body rows whose width the claim is about: row i of the rendering is a
\* row of a line, and the background is filled or the line is matched
FilledBodyRow(s, i) ==
    s.rowlog[i].kind \in BodyRows /\ (s.d.background \/ s.rowlog[i].matched)

\* C3 as claimed: with background_color set or the line matched, every body row
\* (first row and wrap continuation rows) is exactly term_width columns wide
\* before its newline.
C3_BodyRowsFillTheTerminal ==
    \A t \in Threads :
        Rendering(th[t]) =>
            LET rows == Rows(th[t].buf) IN
            \A i \in 1..Len(rows) :
                FilledBodyRow(th[t], i) => Width(rows[i]) = th[t].d.term_width

-----------------------------------------------------------------------------
(* C4 *)

\* the last escape sequence of a row is the reset
EndsReset(row) ==
    \E j \in 1..Len(row) :
        /\ row[j] = Esc(<<0>>)
        /\ \A q \in (j + 1)..Len(row) : row[q].k # "esc"

\* C4 as claimed: on every row of the rendering the last escape sequence before
\* the newline is the reset.
C4_EveryRowEndsReset ==
    \A t \in Threads :
        Rendering(th[t]) =>
            LET rows == Rows(th[t].buf) IN \A i \in 1..Len(rows) : EndsReset(rows[i])

\* C4 amended: on every row of the rendering other than a separator row (header
\* rules, path row, body rows, wrap continuation rows, footer rule) the last
\* escape sequence before the newline is the reset; a separator row is written
\* without any reset.
C4_RowsButSeparatorsEndReset ==
    \A t \in Threads :
        Rendering(th[t]) =>
            LET rows == Rows(th[t].buf) IN
            /\ Len(rows) = Len(th[t].rowlog)
            /\ \A i \in 1..Len(rows) :
                 IF th[t].rowlog[i].kind = "sep"
                 THEN \A j \in 1..Len(rows[i]) : rows[i][j] # Esc(<<0>>)
                 ELSE EndsReset(rows[i])

\* A complete rendering with rules, a wrapped line and a separator.
C4_Witness ==
    \E t \in Threads :
        /\ th[t].pc = "lock"
        /\ th[t].d.grid
        /\ \E i \in 1..Len(th[t].rowlog) : th[t].rowlog[i].kind = "cont"
        /\ \E i \in 1..Len(th[t].rowlog) : th[t].rowlog[i].kind = "sep"
        /\ Len(Rows(th[t].buf)) = Len(th[t].rowlog)

-----------------------------------------------------------------------------
(* C1 *)

\* the orders in which the threads may have reached the sink
Orders == {o \in [1..NumThreads -> Threads] : \A i, j \in 1..NumThreads : o[i] = o[j] => i = j}

\* what a call has written to the sink so far
Written(s) == SubSeq(s.rendered, 1, s.nwritten)

\* C1: when threads print different files concurrently on one printer, the
\* sink holds, in some order of the threads, what each call has written so far,
\* one call after the other and never interleaved; a call of a non-empty file
\* that returned success has written its complete rendering (header, body and
\* footer), so the sink is a concatenation of complete renderings.
C1_RenderingsDoNotInterleave ==
    /\ \E o \in Orders : sink = Concat([i \in 1..NumThreads |-> Written(th[o[i]])])
    /\ \A t \in Threads :
         (th[t].pc = "returned" /\ th[t].result = Ok
              /\ th[t].file.chunks # <<>> /\ th[t].file.line_numbers # <<>>)
         => /\ th[t].rendered # <<>>
            /\ th[t].nwritten = Len(th[t].rendered)
            /\ th[t].rowlog[1].kind = "rule"
            /\ th[t].rendered[Len(th[t].rendered)] = Newline

\* Two threads have printed non-empty files, and the sink received the
\* rendering of the second thread before the rendering of the first.
C1_Witness ==
    /\ \A t \in {1, 2} : th[t].pc = "returned" /\ th[t].result = Ok /\ th[t].rendered # <<>>
    /\ sink = th[2].rendered \o th[1].rendered

-----------------------------------------------------------------------------
(* C7 *)

C7_Empty(file) == file.chunks = <<>> \/ file.line_numbers = <<>>

\* C7: a call of print with empty chunks or empty line_numbers, whatever the
\* contents and the options, returns success without rendering anything,
\* without taking the lock and without writing a byte; none of its steps
\* changes the sink or the lock.
C7_EmptyFilePrintsNothing ==
    /\ [](\A t \in Threads :
            (th[t].pc # "idle" /\ C7_Empty(th[t].file)) =>
                /\ th[t].pc \in {"start", "returned"}
                /\ th[t].pc = "returned" => th[t].result = Ok
                /\ th[t].buf = <<>> /\ th[t].rendered = <<>> /\ th[t].rowlog = <<>>
                /\ th[t].ev = <<>> /\ th[t].nwritten = 0
                /\ lock # t)
    /\ [][\A t \in Threads :
            (C7_Empty(th[t].file) /\ th'[t] # th[t]) => (sink' = sink /\ lock' = lock)]_vars

\* A call with matches and contents but no chunks has returned while the
\* sink is still empty.
C7_Witness ==
    \E t \in Threads :
        /\ th[t].file.chunks = <<>> /\ th[t].file.line_numbers # <<>>
        /\ th[t].file.contents # <<>>
        /\ th[t].pc = "returned" /\ th[t].result = Ok
        /\ sink = <<>>

-----------------------------------------------------------------------------
(* C8 *)

FullGuard == <<"lock", "write_all", "flush", "unlock">>
FailedWriteGuard == <<"lock", "write_all", "unlock">>

\* the index of the last row of the body in a row log
LastBodyRow(rl) == CHOOSE i \in 1..Len(rl) :
    rl[i].kind \in BodyRows /\ \A j \in (i + 1)..Len(rl) : rl[j].kind \notin BodyRows

\* header, body and footer are all in the buffer of the call
FullyRendered(s) ==
    /\ s.buf = s.rendered
    /\ Len(Rows(s.buf)) = Len(s.rowlog)
    /\ s.buf[Len(s.buf)] = Newline
    /\ s.rowlog[1].kind = "rule" /\ s.rowlog[2].kind = "path"
    /\ \E i \in 1..Len(s.rowlog) : s.rowlog[i].kind \in BodyRows
    /\ s.rowlog[LastBodyRow(s.rowlog)].lnum = s.file.chunks[Len(s.file.chunks)][2]
    /\ s.d.grid => s.rowlog[Len(s.rowlog)].kind = "rule" /\ LastBodyRow(s.rowlog) < Len(s.rowlog)

\* C8 as claimed: every call of print takes the lock exactly once, after the
\* rendering, calls write_all once and then flush under it, and releases it
\* before it returns.
C8_EveryCallLocksOnce ==
    \A t \in Threads : th[t].pc = "returned" => (th[t].ev = FullGuard /\ lock # t)

\* C8 amended: a call of print that does not return early (empty file, syntax
\* error) takes the lock exactly once and only after header, body and footer
\* are completely in its buffer, calls write_all once on the whole buffer and,
\* if that succeeds, flush once, all while it holds the lock, and has released
\* the lock when it returns; a call that returns early never takes the lock;
\* the sink is written only by the holder of the lock.
C8_GuardedWriteOnceAfterRendering ==
    /\ [](\A t \in Threads :
            /\ th[t].pc \in {"idle", "start", "body", "wrap", "footer", "lock", "panicked"}
                 => th[t].ev = <<>> /\ lock # t /\ th[t].nwritten = 0
            /\ th[t].pc = "write"
                 => /\ lock = t /\ FullyRendered(th[t])
                    /\ th[t].ev = (IF th[t].nwritten = 0 THEN <<"lock">> ELSE <<"lock", "write_all">>)
            /\ th[t].pc = "flush"
                 => /\ lock = t /\ FullyRendered(th[t])
                    /\ th[t].ev = <<"lock", "write_all">>
                    /\ th[t].nwritten = Len(th[t].buf)
            /\ th[t].pc = "returned"
                 => /\ lock # t
                    /\ th[t].ev \in {<<>>, FullGuard, FailedWriteGuard}
                    /\ th[t].ev = <<>> <=> th[t].rendered = <<>>
                    /\ th[t].result = Ok =>
                         (th[t].ev = FullGuard \/ th[t].file.chunks = <<>>
                             \/ th[t].file.line_numbers = <<>>)
                    /\ th[t].ev = FailedWriteGuard => th[t].result # Ok)
    /\ [][sink' # sink =>
            \E t \in Threads :
                /\ lock = t /\ lock' = t /\ th[t].pc = "write"
                /\ sink' = sink \o SubSeq(th[t].buf, th[t].nwritten + 1, th'[t].nwritten)]_vars

\* A call has written its buffer in two writes of the sink under one guard and
\* returned, and the lock is free again.
C8_Witness ==
    \E t \in Threads :
        /\ th[t].pc = "returned" /\ th[t].ev = FullGuard /\ th[t].nwrites = 2
        /\ th[t].nwritten = Len(th[t].rendered)
        /\ lock = NoThread

-----------------------------------------------------------------------------
(* C9 *)

\* C9: when print returns an error, the error is the one the sink (or the
\* file system) raised, with its message unchanged, the per-file buffer is
\* gone, and the call made one write_all at most and nothing after the failed
\* operation; an error before the final write leaves the call with zero bytes
\* written to the sink.
C9_SinkErrorsSurfaceUnchanged ==
    \A t \in Threads :
        (th[t].pc = "returned" /\ th[t].result.kind = "err") =>
            /\ th[t].raised \in IoErrors
            /\ Display(th[t].result.err) = <<th[t].raised>>
            /\ th[t].buf = <<>>
            /\ th[t].ev \in {<<>>, FailedWriteGuard, FullGuard}
            /\ th[t].ev = FailedWriteGuard => th[t].nwritten < Len(th[t].rendered)
            /\ th[t].ev = FullGuard => th[t].nwritten = Len(th[t].rendered)
            /\ th[t].ev = <<>> =>
                 /\ th[t].nwritten = 0 /\ th[t].nwrites = 0
                 /\ \A i \in 1..Len(sink) : sink[i] # Ch(Digit[t])

\* A write of the sink failed with the message of the tests' DummyError after
\* part of the buffer was written, and print returned that message.
C9_Witness ==
    \E t \in Threads :
        /\ th[t].pc = "returned" /\ th[t].ev = FailedWriteGuard
        /\ th[t].nwritten > 0
        /\ Display(th[t].result.err) = <<"dummy error!">>

-----------------------------------------------------------------------------
(* C10 *)

\* C10: constructing a printer with a theme name fails exactly when the name is
\* in neither theme set, and then the message contains "Unknown theme";
\* otherwise the printer holds the primary set when the name is in it and the
\* fallback set if not, the set it holds contains the name, and the theme
\* lookup of print never fails.
C10_UnknownThemeIffInNeitherSet ==
    (printer.status # "none" /\ printer.opts.theme # None) =>
        LET name == printer.opts.theme[1] IN
        /\ printer.status = "err" <=> name \notin (bat_defaults \cup defaults)
        /\ printer.status = "err" =>
             /\ "Unknown theme" \in Range(Display(printer.err))
             /\ name \in Range(Display(printer.err))
             /\ \A t \in Threads : th[t].pc \in {"idle", "start"}
        /\ printer.status = "ok" =>
             /\ name \in printer.themes.names
             /\ printer.themes = IF name \in bat_defaults
                                 THEN [from |-> "bat", names |-> bat_defaults]
                                 ELSE [from |-> "defaults", names |-> defaults]
             /\ \A t \in Threads : th[t].pc # "panicked" /\ (th[t].theme \in {"", name})

\* A printer was constructed with a name only the fallback set has, and print
\* has looked the theme up and rendered with it.
C10_Witness ==
    /\ printer.status = "ok" /\ printer.themes.from = "defaults"
    /\ printer.opts.theme # None /\ printer.opts.theme[1] \notin bat_defaults
    /\ \E t \in Threads : th[t].pc = "returned" /\ th[t].result = Ok /\ th[t].rendered # <<>>

-----------------------------------------------------------------------------
(* C11 *)

\* the newline is the last byte of the slice or not in it at all
NewlineOnlyLast(line) == \A j \in 1..(Len(line) - 1) : line[j] # "\n"

\* C11: for every buffer the slices LinesInclusive yields are non-empty, at
\* most Len(buf) many, and concatenated in order they are the bytes of the
\* buffer consumed so far, the whole buffer once the iterator returns None;
\* every slice ends with a newline and has no other newline, except that the
\* last slice has none when the buffer does not end in one; the i-th slice
\* carries line number i; an empty buffer yields nothing.
C11_LinesPartitionTheBuffer ==
    call.fn = "lines" =>
        LET buf == call.buf
            items == call.items
            n == Len(items)
        IN  /\ n <= Len(buf)
            /\ Concat([i \in 1..n |-> items[i].line]) = SubSeq(buf, 1, call.it.prev)
            /\ call.done => Concat([i \in 1..n |-> items[i].line]) = buf
            /\ \A i \in 1..n :
                 /\ items[i].line # <<>>
                 /\ items[i].lnum = i
                 /\ NewlineOnlyLast(items[i].line)
                 /\ \/ items[i].line[Len(items[i].line)] = "\n"
                    \/ i = n /\ call.it.prev = Len(buf) /\ buf[Len(buf)] # "\n"
            /\ buf = <<>> => n = 0

\* The iterator was drained over a buffer with an empty line in the middle and
\* no newline at its end.
C11_Witness ==
    /\ call.fn = "lines" /\ call.done
    /\ Len(call.items) >= 3
    /\ \E i \in 1..Len(call.items) : call.items[i].line = <<"\n">>
    /\ call.buf[Len(call.buf)] # "\n"

-----------------------------------------------------------------------------
(* C12 *)

\* C12: for every colour and every colour support, set_fg / set_bg write
\* exactly: for a = 0 and r <= 7 the 16-colour code r + 30 / r + 40; for a = 0
\* and r > 7 the indexed form 38;5;r / 48;5;r; for a = 1 nothing; otherwise
\* 38;2;r;g;b / 48;2;r;g;b when the terminal supports true colour, and the
\* indexed form with the 256-colour index of (r, g, b) when it does not; so no
\* 38;2 or 48;2 sequence is written unless color_support is True.
C12_ColorEncoding ==
    (call.fn \in {"set_fg", "set_bg"} /\ call.done) =>
        LET c == call.c
            base == IF call.fn = "set_fg" THEN 30 ELSE 40
            idx == rgb_to_ansi256(c.r, c.g, c.b)
        IN  /\ (c.a = 0 /\ c.r <= 7) => call.out = <<Esc(<<c.r + base>>)>>
            /\ (c.a = 0 /\ c.r > 7) => call.out = <<Esc(<<base + 8, 5, c.r>>)>>
            /\ c.a = 1 => call.out = <<>>
            /\ (c.a > 1 /\ printer.opts.color_support = "True")
                 => call.out = <<Esc(<<base + 8, 2, c.r, c.g, c.b>>)>>
            /\ (c.a > 1 /\ printer.opts.color_support # "True")
                 => call.out = <<Esc(<<base + 8, 5, idx>>)>> /\ idx \in 16..255
            /\ printer.opts.color_support # "True"
                 => \A i \in 1..Len(call.out) :
                        ~(Len(call.out[i].n) >= 2 /\ call.out[i].n[2] = 2
                            /\ call.out[i].n[1] \in {38, 48})

\* A plain colour was set as background on a 256-colour terminal and came out
\* in the indexed form.
C12_Witness ==
    /\ call.fn = "set_bg" /\ call.done
    /\ call.c.a = 255 /\ call.c.r # call.c.g
    /\ printer.opts.color_support = "Ansi256"
    /\ Len(call.out) = 1 /\ call.out[1].n[1] = 48 /\ call.out[1].n[2] = 5

-----------------------------------------------------------------------------
(* C13 *)

\* every row of the listing is one name
OneNamePerLine(out) ==
    \A i \in 1..Len(Rows(out)) : Len(Rows(out)[i]) = 1 /\ Rows(out)[i][1].k = "str"

\* the names of a listing, row by row
ListedNames(out) == [i \in 1..Len(Rows(out)) |-> Rows(out)[i][1].c]

\* C13: when list_themes succeeds it has written every theme name of the
\* primary and of the fallback set exactly once, one per line: the names of
\* the primary set first, then the names only the fallback set has.
C13_ListThemesPrimaryFirstNoRepeat ==
    (call.fn = "list_themes" /\ call.result = Ok) =>
        LET names == ListedNames(call.out)
            n == Cardinality(bat_defaults)
        IN  /\ OneNamePerLine(call.out)
            /\ call.out = <<>> \/ call.out[Len(call.out)] = Newline
            /\ Range(names) = bat_defaults \cup defaults
            /\ Len(names) = Cardinality(bat_defaults \cup defaults)
            /\ \A i \in 1..Len(names) :
                 IF i <= n THEN names[i] \in bat_defaults
                 ELSE names[i] \in defaults \ bat_defaults

\* Themes were listed from two sets that share a name and have a name of
\* their own each.
C13_Witness ==
    /\ call.fn = "list_themes" /\ call.result = Ok
    /\ bat_defaults \cap defaults # {}
    /\ bat_defaults \ defaults # {}
    /\ defaults \ bat_defaults # {}
    /\ Len(Rows(call.out)) = Cardinality(bat_defaults \cup defaults)

-----------------------------------------------------------------------------
(* C14 *)

\* the line numbers of the first rows of the lines drawn, in the order drawn
RECURSIVE DrawnLines(_)
DrawnLines(rl) ==
    IF rl = <<>> THEN <<>>
    ELSE (IF Head(rl).kind = "body" THEN <<Head(rl).lnum>> ELSE <<>>) \o DrawnLines(Tail(rl))

\* the lines of the file that lie in some chunk
ChunkLines(file) == {n \in 1..NumLines(file.contents) : InSomeChunk(file, n)}

\* C14: for a file whose chunks meet the data model, the lines draw_body draws
\* are lines of the file inside some chunk, each drawn once and in increasing
\* order; when draw_body has returned, every line of the file inside a chunk
\* has been drawn, and the iterator and the highlighter have gone no further
\* than the end line of the last chunk.
C14_BodyIsExactlyTheChunkLines ==
    \A t \in Threads :
        DataModelChunks(th[t].file.chunks) =>
            LET s == th[t]
                drawn == DrawnLines(s.rowlog)
                last_end == s.file.chunks[Len(s.file.chunks)][2]
            IN  /\ StrictlyIncreasing(drawn)
                /\ Range(drawn) \subseteq ChunkLines(s.file)
                /\ \A i \in 1..Len(s.hl) :
                     s.hl[i].how = "highlight" <=>
                        (s.hl[i].lnum \in Range(drawn) \/ (s.pc = "wrap" /\ s.hl[i].lnum = s.lnum))
                /\ BodyDone(s) =>
                     /\ Range(drawn) = ChunkLines(s.file)
                     /\ Len(s.hl) = Min(last_end, NumLines(s.file.contents))
                     /\ s.it.lnum <= last_end + 1
                     /\ \A i \in 1..Len(s.hl) : s.hl[i].lnum <= last_end

\* A chunk in the middle of the file was drawn: the line before it was skipped
\* and the line after it was never reached.
C14_Witness ==
    \E t \in Threads :
        /\ DataModelChunks(th[t].file.chunks)
        /\ BodyDone(th[t])
        /\ th[t].file.chunks = <<<<2, 2>>>>
        /\ NumLines(th[t].file.contents) = 3
        /\ DrawnLines(th[t].rowlog) = <<2>>
        /\ Len(th[t].hl) = 2

-----------------------------------------------------------------------------
(* C15 *)

\* the characters a list of parts still holds
RECURSIVE PartsText(_)
PartsText(parts) == IF parts = <<>> THEN <<>> ELSE Head(parts).text \o PartsText(Tail(parts))

\* the result of the draw_texts call the wrap loop is about to make
NextDrawTexts(s) ==
    draw_texts(s.d.canvas, s.parts, s.line_matched, s.d.term_width - gutter_width(s.d))

\* C15 as claimed: whenever the wrap loop of draw_line is about to call
\* draw_texts, with term_width > gutter_width, the call returns Done or a Wrap
\* whose remaining text is strictly shorter than the text it was handed, so
\* the loop ends after finitely many continuation rows.
C15_EveryWrapShortensTheRest ==
    \A t \in Threads :
        (th[t].pc = "wrap" /\ th[t].d.term_width > gutter_width(th[t].d)) =>
            LET r == NextDrawTexts(th[t])
            IN  r.wrap => Len(PartsText(rest_parts(th[t].parts, r.rest, r.idx)))
                              < Len(PartsText(th[t].parts))

-----------------------------------------------------------------------------
(* C16 *)

\* the characters of a list of parts, each with the style of its part
RECURSIVE StyledChars(_)
StyledChars(parts) ==
    IF parts = <<>> THEN <<>>
    ELSE [i \in 1..Len(Head(parts).text) |-> [c |-> Head(parts).text[i], style |-> Head(parts).style]]
         \o StyledChars(Tail(parts))

\* n spaces standing for a tab of the given style
TabSpaces(style, n) == [i \in 1..Max(n, 0) |-> [c |-> " ", style |-> style]]

\* The rows a line is expected on, laid out character by character with no
\* notion of parts: a tab is tab_width spaces, or the padding to the row end
\* when it does not fit; any other character that does not fit opens the
\* next row.  `row` is the row being filled, `rows` the rows closed so far.
RECURSIVE Layout(_, _, _, _, _, _, _)
Layout(chars, i, col, width, tab_width, row, rows) ==
    IF i > Len(chars) THEN Append(rows, row)
    ELSE LET x == chars[i] IN
         IF x.c = "\t" /\ tab_width > 0
         THEN IF col + tab_width > width
              THEN Layout(chars, i + 1, 0, width, tab_width, <<>>,
                          Append(rows, row \o TabSpaces(x.style, width - col)))
              ELSE Layout(chars, i + 1, col + tab_width, width, tab_width,
                          row \o TabSpaces(x.style, tab_width), rows)
         ELSE IF col + CharWidth(x.c) > width
              THEN IF col = 0 THEN Append(rows, row)
                   ELSE Layout(chars, i, 0, width, tab_width, <<>>, Append(rows, row))
              ELSE Layout(chars, i + 1, col + CharWidth(x.c), width, tab_width,
                          Append(row, x), rows)

\* The characters of a written row, each with the escape sequences written
\* since the character before it changed (`open`: the last token was an escape)
RECURSIVE Decode(_, _, _, _, _)
Decode(toks, i, sig, open, out) ==
    IF i > Len(toks) THEN out
    ELSE IF toks[i].k = "esc"
    THEN Decode(toks, i + 1, IF open THEN Append(sig, toks[i]) ELSE <<toks[i]>>, TRUE, out)
    ELSE Decode(toks, i + 1, sig, FALSE, Append(out, [c |-> toks[i].c, sig |-> sig]))

IsSuffix(a, b) == Len(a) <= Len(b) /\ SubSeq(b, Len(b) - Len(a) + 1, Len(b)) = a

\* the written character is the expected one, under the style of its part
WrittenAs(cv, matched, got, want) ==
    got.c = want.c /\ IsSuffix(part_prefix(cv, want.style, matched), got.sig)

\* the indexes of the rows of line 1 in a row log
LineRows(rl) == {i \in 1..Len(rl) : rl[i].kind \in BodyRows /\ rl[i].lnum = 1}

\* what row i of the rendering holds after its gutter
RowContent(s, i) ==
    LET gutter == IF s.rowlog[i].kind = "body"
                  THEN draw_line_number(s.d, s.rowlog[i].lnum, s.rowlog[i].matched)
                  ELSE draw_wrapping_gutter(s.d)
    IN  Decode(Tail0(Rows(s.buf)[i], Len(gutter)), 1, <<>>, FALSE, <<>>)

\* line 1 of the file as draw_line gets it: highlighted, newline trimmed
FirstLineParts(s) ==
    chomp(highlight(from_utf8_lossy(LinesInclusive_next(s.file.contents, LinesInclusive_new).line),
                    s.cuts, s.theme))

\* C16: the rows written for a line hold, in order, exactly the characters of
\* the line after the newline trim, none dropped and none twice, a tab as
\* tab_width spaces (as the padding to the row end when it breaks the row, as
\* itself when tab_width is 0), every character under the style of the part
\* it belonged to, also on the row after a break inside a part; only the last
\* row of the line may hold more, the spaces that fill it.
C16_WrappedRowsHoldTheLine ==
    \A t \in Threads :
        (th[t].lnum = 1 /\ th[t].pc \in {"wrap", "body"}) =>
            LET s == th[t]
                first == CHOOSE i \in LineRows(s.rowlog) \cup {Len(s.rowlog) + 1} :
                            \A j \in LineRows(s.rowlog) : i <= j
                n == Cardinality(LineRows(s.rowlog))
                want == Layout(StyledChars(FirstLineParts(s)), 1, 0,
                               s.d.term_width - gutter_width(s.d), s.d.canvas.tab_width, <<>>, <<>>)
            IN  /\ LineRows(s.rowlog) = first..(first + n - 1)
                /\ n <= Len(want)
                /\ s.pc = "body" => n = Len(want)
                /\ \A k \in 1..n :
                     LET got == RowContent(s, first + k - 1)
                     IN  /\ Len(got) >= Len(want[k])
                         /\ \A j \in 1..Len(want[k]) :
                              WrittenAs(s.d.canvas, s.rowlog[first + k - 1].matched, got[j], want[k][j])
                         /\ (k < n \/ s.pc = "wrap") => Len(got) = Len(want[k])
                         /\ \A j \in (Len(want[k]) + 1)..Len(got) : got[j].c = " "

\* A line was wrapped inside a part: its second row resumes, under the style
\* of that part, with the character the first row had no room for.
C16_Witness ==
    \E t \in Threads :
        /\ th[t].lnum = 1 /\ th[t].pc = "body"
        /\ Len(FirstLineParts(th[t])) = 2
        /\ Len(FirstLineParts(th[t])[1].text) = 1
        /\ Cardinality(LineRows(th[t].rowlog)) = 2
        /\ th[t].d.term_width - gutter_width(th[t].d) = 2
        /\ LET i == CHOOSE i \in LineRows(th[t].rowlog) : i + 1 \in LineRows(th[t].rowlog)
           IN  /\ Len(RowContent(th[t], i)) = 2
               /\ RowContent(th[t], i + 1)[1].c = "W"

-----------------------------------------------------------------------------
(* C17 *)

\* the operands of the subtractions of draw_separator_line
SeparatorFits(d) ==
    LET left_margin == d.lnum_width + 1 - 3
        w == IF d.grid THEN 5 ELSE 3
    IN  /\ d.lnum_width + 1 >= 3
        /\ d.term_width - left_margin >= w

\* the positions of the newlines of a buffer
NewlinesAt(buf) == {i \in 1..Len(buf) : buf[i].k = "nl"}

\* the position of the newline that ends row j of a buffer, 0 for j = 0
RowEnd(buf, j) ==
    IF j = 0 THEN 0
    ELSE CHOOSE p \in NewlinesAt(buf) : Cardinality({q \in NewlinesAt(buf) : q <= p}) = j

\* row j of a buffer, without its newline
RowOf(buf, j) == SubSeq(buf, RowEnd(buf, j - 1) + 1, RowEnd(buf, j) - 1)

\* C17: for a file whose chunks meet the data model, printed with
\* term_width > gutter_width, no subtraction of the layout code goes below
\* zero: no row of a line is wider than the terminal (the columns draw_texts
\* has written never exceed max_width, before and after the call the wrap
\* loop is about to make), num_digits(lnum) <= lnum_width for every line
\* drawn, lnum_width + 1 - 3 >= 0 and term_width - left_margin - w >= 0
\* whenever a separator is drawn, and term_width - gutter_width >= 0.
C17_LayoutSubtractionsStayNonNegative ==
    \A t \in Threads :
        (th[t].pc \in {"body", "wrap", "footer", "lock"}
             /\ DataModelChunks(th[t].file.chunks)
             /\ th[t].d.term_width > gutter_width(th[t].d)) =>
            LET s == th[t]
                max_width == s.d.term_width - gutter_width(s.d)
            IN  /\ max_width >= 0
                /\ gutter_width(s.d) >= 2
                /\ \A i \in 1..Cardinality(NewlinesAt(s.buf)) :
                     /\ s.rowlog[i].kind \in BodyRows => Width(RowOf(s.buf, i)) <= s.d.term_width
                     /\ s.rowlog[i].kind = "body" => num_digits(s.rowlog[i].lnum) <= s.d.lnum_width
                     /\ s.rowlog[i].kind = "sep" => SeparatorFits(s.d)
                /\ s.pc = "wrap" =>
                     /\ num_digits(s.lnum) <= s.d.lnum_width
                     /\ Width(NextDrawTexts(s).out) <= max_width
                     /\ (s.lnum = s.chunk[2] /\ s.chunks_next <= Len(s.file.chunks))
                          => SeparatorFits(s.d)

\* A separator was drawn in front of a line with a two-digit number, on a
\* terminal one column wider than the gutter.
C17_Witness ==
    \E t \in Threads :
        /\ DataModelChunks(th[t].file.chunks)
        /\ th[t].pc = "lock"
        /\ th[t].d.term_width = gutter_width(th[t].d) + 1
        /\ \E i \in 1..(Len(th[t].rowlog) - 1) :
             /\ th[t].rowlog[i].kind = "sep"
             /\ th[t].rowlog[i + 1].kind = "body"
             /\ num_digits(th[t].rowlog[i + 1].lnum) = 2

=============================================================================
